---- MODULE Spec2Model ----
(***************************************************************************)
(* bevy_meshopt, examples/demo.rs: the scene-instance lifecycle            *)
(* (reset_gltf_object), the simplification pass (simplify_meshes) and the  *)
(* egui control panel (simplify_settings_ui), run by the Bevy schedule.    *)
(*                                                                         *)
(* One frame of the host runs the systems of Schedule in order.  Commands  *)
(* issued by reset_gltf_object are deferred and applied at the sync point  *)
(* that .chain() places between the two Update systems; the children of a  *)
(* SceneRoot (the entities that carry Mesh3d) are created by the scene     *)
(* spawner after Update; the control panel runs last.                      *)
(***************************************************************************)
EXTENDS Integers, Sequences, FiniteSets, TLC

VARIABLES
    reset,          \* Reset.0
    simplify,       \* Simplify.0
    settings,       \* SimplifySettings.0 : SimplifyParams
    helmet_entity,  \* HelmetEntity.0 : Option<Entity>, NoEntity for None
    gltf_loaded,    \* gltf_assets.get(&helmet_scene.0) is Some
    scene,          \* the Mesh3d handles of gltf.scenes[0], in query order
    meshes,         \* Assets<Mesh> : mesh id -> mesh buffer
    queue,          \* Commands issued and not yet applied
    world,          \* root entities spawned and not despawned
    children,       \* root entities whose scene children exist
    despawned,      \* entities for which a despawn was applied
    next_id,        \* entity allocator
    pc,             \* position in Schedule
    order,          \* systems run so far in this frame
    rlog,           \* what reset_gltf_object did in this frame
    slog,           \* what simplify_meshes did in this frame
    trip            \* progress of a variant round trip in the control panel

vars == <<reset, simplify, settings, helmet_entity, gltf_loaded, scene, meshes,
          queue, world, children, despawned, next_id, pc, order, rlog, slog, trip>>

(***************************************************************************)
(* Bounds of the model.                                                    *)
(***************************************************************************)
MaxSpawns == 2      \* entities the allocator hands out
MaxEntities == 2    \* Mesh3d entities in the scene
MaxCount == 1       \* positions / indices of a freshly loaded mesh
MaxClicks == 2      \* widgets that report an interaction in one frame

(***************************************************************************)
(* Program constants.  Fractions are held in hundredths (Multiplier) and   *)
(* thousandths (max_error).                                                *)
(***************************************************************************)
CountDefault == 1000
MultiplierDefault == 50
CountMin == 1
CountMax == 100000
MultiplierMin == 0
MultiplierMax == 100
ErrorMin == 0
ErrorMax == 1000

NoEntity == 0
MeshIds == 1..MaxEntities
Flags == {"LockBorder", "Sparse", "ErrorAbsolute", "Regularize"}

Count(n) == [tag |-> "Count", val |-> n]
Multiplier(f) == [tag |-> "Multiplier", val |-> f]

Min(a, b) == IF a <= b THEN a ELSE b

(***************************************************************************)
(* The schedule: Update runs (reset_gltf_object, simplify_meshes).chain(), *)
(* with the sync point the chain inserts; then SpawnScene; then the egui   *)
(* pass.                                                                   *)
(***************************************************************************)
Schedule_Unchained ==
    <<"simplify_meshes", "reset_gltf_object", "apply_deferred",
      "spawn_scene", "simplify_settings_ui">>

Schedule ==
    <<"reset_gltf_object", "apply_deferred", "simplify_meshes",
      "spawn_scene", "simplify_settings_ui">>

Cur == Schedule[pc]

Advance ==
    /\ pc' = IF pc = Len(Schedule) THEN 1 ELSE pc + 1
    /\ order' = IF pc = 1 THEN <<Cur>> ELSE Append(order, Cur)

(***************************************************************************)
(* reset_gltf_object                                                       *)
(***************************************************************************)
Despawn(e) == [op |-> "despawn", e |-> e]
Spawn(e) == [op |-> "spawn", e |-> e]

\* if let Some(helmet_entity) = helmet_entity.0 { commands.entity(..).despawn(); }
DespawnHeld_Forgotten(held) == <<>>

DespawnHeld(held) == IF held # NoEntity THEN <<Despawn(held)>> ELSE <<>>

\* if let Some(gltf) = gltf_assets.get(..) { commands.spawn(SceneRoot(..)).id() }
SpawnRoot_Unchecked(ready, id) == <<Spawn(id)>>

SpawnRoot(ready, id) == IF ready THEN <<Spawn(id)>> ELSE <<>>

\* the commands of one run, in the order they are issued
ResetCommands_SpawnFirst(held, ready, id) == SpawnRoot(ready, id) \o DespawnHeld(held)

ResetCommands(held, ready, id) == DespawnHeld(held) \o SpawnRoot(ready, id)

\* helmet_entity.0 = None; ... helmet_entity.0 = Some(new_id);
RecordAfter_Kept(held, ready, id) == IF ready THEN id ELSE held

RecordAfter(held, ready, id) == IF ready THEN id ELSE NoEntity

\* reset.0 = false, reached on both branches of the readiness test
ResetAfter_OnlyOnSpawn(ready) == ~ready

ResetAfter(ready) == FALSE

\* if !reset.0 { return; }
ShouldReset_Always(r) == TRUE

ShouldReset(r) == r

NoResetLog == [ran |-> FALSE, prior |-> NoEntity, ready |-> FALSE, cmds |-> <<>>]

\* the system with a stray simplify.0 = false before its early return
reset_gltf_object_ClearsSimplify ==
    /\ Cur = "reset_gltf_object"
    /\ simplify' = FALSE
    /\ IF ~ShouldReset(reset)
       THEN /\ rlog' = NoResetLog
            /\ UNCHANGED <<reset, helmet_entity, queue, next_id>>
       ELSE /\ gltf_loaded => next_id <= MaxSpawns
            /\ LET cmds == ResetCommands(helmet_entity, gltf_loaded, next_id)
               IN  /\ queue' = queue \o cmds
                   /\ rlog' = [ran |-> TRUE, prior |-> helmet_entity,
                               ready |-> gltf_loaded, cmds |-> cmds]
            /\ helmet_entity' = RecordAfter(helmet_entity, gltf_loaded, next_id)
            /\ next_id' = IF gltf_loaded THEN next_id + 1 ELSE next_id
            /\ reset' = ResetAfter(gltf_loaded)
    /\ Advance
    /\ UNCHANGED <<settings, gltf_loaded, scene, meshes, world,
                   children, despawned, slog, trip>>

reset_gltf_object ==
    /\ Cur = "reset_gltf_object"
    /\ IF ~ShouldReset(reset)
       THEN /\ rlog' = NoResetLog
            /\ UNCHANGED <<reset, helmet_entity, queue, next_id>>
       ELSE /\ gltf_loaded => next_id <= MaxSpawns
            /\ LET cmds == ResetCommands(helmet_entity, gltf_loaded, next_id)
               IN  /\ queue' = queue \o cmds
                   /\ rlog' = [ran |-> TRUE, prior |-> helmet_entity,
                               ready |-> gltf_loaded, cmds |-> cmds]
            /\ helmet_entity' = RecordAfter(helmet_entity, gltf_loaded, next_id)
            /\ next_id' = IF gltf_loaded THEN next_id + 1 ELSE next_id
            /\ reset' = ResetAfter(gltf_loaded)
    /\ Advance
    /\ UNCHANGED <<simplify, settings, gltf_loaded, scene, meshes, world,
                   children, despawned, slog, trip>>

(***************************************************************************)
(* The sync point between the chained systems applies the queued commands. *)
(* despawn removes the root and, with it, the scene children below it.     *)
(***************************************************************************)
ApplyOne(w, c) ==
    IF c.op = "despawn"
    THEN [world |-> w.world \ {c.e}, children |-> w.children \ {c.e},
          despawned |-> w.despawned \cup {c.e}]
    ELSE [w EXCEPT !.world = @ \cup {c.e}]

RECURSIVE ApplyCommands(_, _)
ApplyCommands(w, q) ==
    IF q = <<>> THEN w ELSE ApplyCommands(ApplyOne(w, Head(q)), Tail(q))

apply_deferred ==
    /\ Cur = "apply_deferred"
    /\ LET w == ApplyCommands([world |-> world, children |-> children,
                               despawned |-> despawned], queue)
       IN  /\ world' = w.world
           /\ children' = w.children
           /\ despawned' = w.despawned
    /\ queue' = <<>>
    /\ Advance
    /\ UNCHANGED <<reset, simplify, settings, helmet_entity, gltf_loaded, scene,
                   meshes, next_id, rlog, slog, trip>>

(***************************************************************************)
(* The scene spawner (schedule SpawnScene, after Update) instantiates the  *)
(* scene below every SceneRoot that has no instance yet.                   *)
(***************************************************************************)
spawn_scene ==
    /\ Cur = "spawn_scene"
    /\ children' = children \cup world
    /\ Advance
    /\ UNCHANGED <<reset, simplify, settings, helmet_entity, gltf_loaded, scene,
                   meshes, queue, world, despawned, next_id, rlog, slog, trip>>

\* asset_server.load(..) completes: the Gltf, its scene and its meshes appear
\* in their Assets collections before the frame's Update.
\* Mesh handles are opaque: a scene names its meshes in order of first use.
Used(s) == {s[k] : k \in DOMAIN s}

Scenes ==
    {s \in UNION {[1..n -> MeshIds] : n \in 0..MaxEntities} :
        \A k \in DOMAIN s : s[k] <= Cardinality(Used(SubSeq(s, 1, k - 1))) + 1}

FreshMesh(enc) == [pos |-> MaxCount, idx |-> MaxCount, enc |-> enc]

AssetLoaded ==
    /\ pc = 1
    /\ ~gltf_loaded
    /\ gltf_loaded' = TRUE
    /\ scene' \in Scenes
    /\ \E enc \in {"U16", "U32"} : meshes' = [m \in Used(scene') |-> FreshMesh(enc)]
    /\ UNCHANGED <<reset, simplify, settings, helmet_entity, queue, world,
                   children, despawned, next_id, pc, order, rlog, slog, trip>>

(***************************************************************************)
(* simplify_meshes                                                         *)
(***************************************************************************)
\* query.iter(): the Mesh3d entities, each with the root it hangs under
RECURSIVE Enumerate(_)
Enumerate(roots) ==
    IF roots = {} THEN <<>>
    ELSE LET r == CHOOSE x \in roots : TRUE
         IN  [k \in 1..Len(scene) |-> [inst |-> r, mesh |-> scene[k]]]
             \o Enumerate(roots \ {r})

\* mesh.attribute(Mesh::ATTRIBUTE_POSITION).map_or(0, |a| a.len())
PositionCount(mesh) == mesh.pos

\* mesh.indices().map_or(0, |indices| indices.len())
IndexCount(mesh) == mesh.idx

\* Mesh::assert_indices_u32: the index buffer is re-encoded as u32
assert_indices_u32(mesh) == [mesh EXCEPT !.enc = "U32"]

\* Mesh::simplify_in_place: Ok with the mesh reduced in place, or Err with the
\* mesh as it was.  o is what the decimation library decides for this call: on
\* Ok the index buffer keeps at most o.idx indices (never more than it had),
\* and the vertex buffer is either kept or compacted to the vertices in use.
simplify_in_place(mesh, params, o) ==
    IF o.ok
    THEN LET idx == Min(mesh.idx, o.idx)
         IN  [ok |-> TRUE,
              mesh |-> [mesh EXCEPT !.idx = idx,
                                    !.pos = IF o.compact THEN Min(@, idx) ELSE @]]
    ELSE [ok |-> FALSE, mesh |-> mesh]

Outcomes ==
    {o \in [ok : BOOLEAN, idx : 0..MaxCount, compact : BOOLEAN] :
        o.ok \/ (o.idx = 0 /\ ~o.compact)}

ZeroStats ==
    [positions_before |-> 0, positions_after |-> 0,
     indices_before |-> 0, indices_after |-> 0]

\* the body of the for loop for one entity: acc = [meshes, stats, visits]
Visit_AfterOnSuccess(acc, v, params, o) ==
    LET pre == acc.meshes[v.mesh]
        r == simplify_in_place(assert_indices_u32(pre), params, o)
        st == acc.stats
    IN  [meshes |-> [acc.meshes EXCEPT ![v.mesh] = r.mesh],
         stats |-> [positions_before |-> st.positions_before + PositionCount(pre),
                    indices_before |-> st.indices_before + IndexCount(pre),
                    positions_after |-> st.positions_after
                        + (IF r.ok THEN PositionCount(r.mesh) ELSE 0),
                    indices_after |-> st.indices_after
                        + (IF r.ok THEN IndexCount(r.mesh) ELSE 0)],
         visits |-> Append(acc.visits,
                    [inst |-> v.inst, mesh |-> v.mesh, ok |-> r.ok,
                     pre |-> pre, post |-> r.mesh,
                     before |-> <<PositionCount(pre), IndexCount(pre)>>,
                     after |-> IF r.ok
                               THEN <<PositionCount(r.mesh), IndexCount(r.mesh)>>
                               ELSE <<0, 0>>])]

\* indices_after fed from the position count
Visit_AfterIndicesFromPositions(acc, v, params, o) ==
    LET pre == acc.meshes[v.mesh]
        r == simplify_in_place(assert_indices_u32(pre), params, o)
        st == acc.stats
    IN  [meshes |-> [acc.meshes EXCEPT ![v.mesh] = r.mesh],
         stats |-> [positions_before |-> st.positions_before + PositionCount(pre),
                    indices_before |-> st.indices_before + IndexCount(pre),
                    positions_after |-> st.positions_after + PositionCount(r.mesh),
                    indices_after |-> st.indices_after + PositionCount(r.mesh)],
         visits |-> Append(acc.visits,
                    [inst |-> v.inst, mesh |-> v.mesh, ok |-> r.ok,
                     pre |-> pre, post |-> r.mesh,
                     before |-> <<PositionCount(pre), IndexCount(pre)>>,
                     after |-> <<PositionCount(r.mesh), PositionCount(r.mesh)>>])]

Visit(acc, v, params, o) ==
    IF v.mesh \notin DOMAIN acc.meshes
    THEN acc
    ELSE LET pre == acc.meshes[v.mesh]
             r == simplify_in_place(assert_indices_u32(pre), params, o)
             st == acc.stats
         IN  [meshes |-> [acc.meshes EXCEPT ![v.mesh] = r.mesh],
              stats |-> [positions_before |-> st.positions_before + PositionCount(pre),
                         indices_before |-> st.indices_before + IndexCount(pre),
                         positions_after |-> st.positions_after + PositionCount(r.mesh),
                         indices_after |-> st.indices_after + IndexCount(r.mesh)],
              visits |-> Append(acc.visits,
                         [inst |-> v.inst, mesh |-> v.mesh, ok |-> r.ok,
                          pre |-> pre, post |-> r.mesh,
                          before |-> <<PositionCount(pre), IndexCount(pre)>>,
                          after |-> <<PositionCount(r.mesh), IndexCount(r.mesh)>>])]

\* the for loop over query.iter(), outs[k] the library's decision at visit k
\* the loop left at the first Err
RECURSIVE Pass_AbortOnError(_, _, _, _)
Pass_AbortOnError(acc, q, params, outs) ==
    IF q = <<>> THEN acc
    ELSE LET a == Visit(acc, Head(q), params, Head(outs))
         IN  IF ~Head(outs).ok THEN a
             ELSE Pass_AbortOnError(a, Tail(q), params, Tail(outs))

RECURSIVE Pass(_, _, _, _)
Pass(acc, q, params, outs) ==
    IF q = <<>> THEN acc
    ELSE Pass(Visit(acc, Head(q), params, Head(outs)), Tail(q), params, Tail(outs))

\* simplify.0 = false, after the loop and the report
SimplifyAfter_OnlyIfVisited(visits) == visits = <<>>

SimplifyAfter(visits) == FALSE

\* if !simplify.0 { return; }
ShouldSimplify_Always(r) == TRUE

ShouldSimplify(r) == r

NoSimplifyLog ==
    [ran |-> FALSE, start |-> <<>>, query |-> <<>>, visits |-> <<>>,
     report |-> ZeroStats]

simplify_meshes ==
    /\ Cur = "simplify_meshes"
    /\ IF ~ShouldSimplify(simplify)
       THEN /\ slog' = NoSimplifyLog
            /\ UNCHANGED <<simplify, meshes>>
       ELSE \E outs \in [1..Len(Enumerate(children)) -> Outcomes] :
              LET q == Enumerate(children)
                  end == Pass([meshes |-> meshes, stats |-> ZeroStats,
                               visits |-> <<>>], q, settings, outs)
              IN  /\ meshes' = end.meshes
                  /\ slog' = [ran |-> TRUE, start |-> meshes, query |-> q,
                              visits |-> end.visits, report |-> end.stats]
                  /\ simplify' = SimplifyAfter(end.visits)
    /\ Advance
    /\ UNCHANGED <<reset, settings, helmet_entity, gltf_loaded, scene, queue,
                   world, children, despawned, next_id, rlog, trip>>

(***************************************************************************)
(* simplify_settings_ui: one egui pass.  The input of a pass says which    *)
(* widgets report an interaction in it.                                    *)
(***************************************************************************)
NoEdit == -1
\* the values a slider is handed by a drag or by its text field: one below
\* its range, one inside and one above
ErrorVals == {ErrorMin - 5, 10, ErrorMax + 1}
CountVals == {CountMin - 1, 500, CountMax + 1}
MultiplierVals == {MultiplierMin - 5, 25, MultiplierMax + 1}

UiInputs ==
    [ctx : BOOLEAN,                         \* contexts.ctx_mut() is Ok
     max_error : ErrorVals \cup {NoEdit},   \* the "error" slider is moved
     count : BOOLEAN,                       \* "Count" is clicked in the combo box
     multiplier : BOOLEAN,                  \* "Multiplier" is clicked
     slider : CountVals \cup MultiplierVals \cup {NoEdit},
     options : SUBSET Flags,                \* the option checkboxes clicked
     sloppy : BOOLEAN,                      \* the "Sloppy" checkbox is clicked
     reset : BOOLEAN,                       \* the "Reset" button is clicked
     simplify : BOOLEAN]                    \* the "Simplify" button is clicked

B(b) == IF b THEN 1 ELSE 0

ParamInteractions(in) ==
    B(in.max_error # NoEdit) + B(in.count) + B(in.multiplier)
    + B(in.slider # NoEdit) + Cardinality(in.options) + B(in.sloppy)

Interactions(in) == ParamInteractions(in) + B(in.reset) + B(in.simplify)

\* at most MaxClicks widgets interact in one pass; none without a context
FrameInputs ==
    {in \in UiInputs : /\ Interactions(in) <= MaxClicks
                       /\ ~in.ctx => Interactions(in) = 0}

\* a pass in which the user touches the two buttons only
ButtonInputs == {in \in FrameInputs : ParamInteractions(in) = 0}

\* a slider stores the value it is handed as it comes
Clamp_None(v, lo, hi) == v

\* egui::Slider::new(value, lo..=hi) stores the value clamped to its range
Clamp(v, lo, hi) == IF v < lo THEN lo ELSE IF v > hi THEN hi ELSE v

\* egui::Slider::new(&mut settings.max_error, 0.0..=1.0)
ErrorSlider(e, in) ==
    IF in.max_error # NoEdit THEN Clamp(in.max_error, ErrorMin, ErrorMax) ELSE e

\* selecting "Count" sets the default also when Count is already active
SelectCount_Always(t, clicked) == IF clicked THEN Count(CountDefault) ELSE t

\* if ui.selectable_value(.., "Count", ..).clicked() { if !matches!(.., Count(_)) {..} }
SelectCount_Zero(t, clicked) ==
    IF clicked /\ t.tag # "Count" THEN Count(0) ELSE t

SelectCount(t, clicked) ==
    IF clicked /\ t.tag # "Count" THEN Count(CountDefault) ELSE t

\* if ui.selectable_value(.., "Multiplier", ..).clicked() { .. }
SelectMultiplier(t, clicked) ==
    IF clicked /\ t.tag # "Multiplier" THEN Multiplier(MultiplierDefault) ELSE t

\* match &mut settings.target_index_count { Count(count) => Slider 1..=100000,
\*                                          Multiplier(m) => Slider 0.0..=1.0 }
SliderRange(t) == IF t.tag = "Count" THEN CountVals ELSE MultiplierVals

SliderMin(t) == IF t.tag = "Count" THEN CountMin ELSE MultiplierMin

SliderMax(t) == IF t.tag = "Count" THEN CountMax ELSE MultiplierMax

ValueSlider(t, in) ==
    IF in.slider # NoEdit
    THEN [t EXCEPT !.val = Clamp(in.slider, SliderMin(t), SliderMax(t))]
    ELSE t

\* if ui.checkbox(&mut settings.options.contains(F), ..).clicked() {
\*     settings.options.toggle(F); }
Toggle_Insert(opts, f, clicked) == IF clicked THEN opts \cup {f} ELSE opts

Toggle(opts, f, clicked) ==
    IF clicked THEN (IF f \in opts THEN opts \ {f} ELSE opts \cup {f}) ELSE opts

OptionBoxes(opts, in) ==
    LET a == Toggle(opts, "LockBorder", "LockBorder" \in in.options)
        b == Toggle(a, "Sparse", "Sparse" \in in.options)
        c == Toggle(b, "ErrorAbsolute", "ErrorAbsolute" \in in.options)
    IN  Toggle(c, "Regularize", "Regularize" \in in.options)

\* ui.checkbox(&mut settings.sloppy, "Sloppy")
SloppyBox(s, in) == IF in.sloppy THEN ~s ELSE s

\* the settings after the pass
Panel(p, in) ==
    [max_error |-> ErrorSlider(p.max_error, in),
     target_index_count |->
        ValueSlider(SelectMultiplier(SelectCount(p.target_index_count, in.count),
                                     in.multiplier), in),
     options |-> OptionBoxes(p.options, in),
     sloppy |-> SloppyBox(p.sloppy, in)]

\* if ui.button("Reset").clicked() { reset.0 = true; }
ResetButton(r, in) == IF in.reset THEN TRUE ELSE r

\* if ui.button("Simplify").clicked() { simplify.0 = true; }
SimplifyButton(s, in) == IF in.simplify THEN TRUE ELSE s

\* the pass selects variant tag and touches nothing else of the parameters
OnlySelects(in, tag) ==
    /\ ParamInteractions(in) = 1
    /\ IF tag = "Count" THEN in.count ELSE in.multiplier

Other(tag) == IF tag = "Count" THEN "Multiplier" ELSE "Count"

NoTrip == [stage |-> 0, from |-> Count(CountDefault)]

\* a round trip: the other variant is selected (stage 1), then the first one
\* again (stage 2), with no other edit of the parameters in between; stage 3
\* is a pass that selects the variant that is active already
TripAfter(t, in) ==
    IF trip.stage = 1 /\ OnlySelects(in, trip.from.tag)
    THEN [stage |-> 2, from |-> trip.from]
    ELSE IF OnlySelects(in, Other(t.tag)) THEN [stage |-> 1, from |-> t]
    ELSE IF OnlySelects(in, t.tag) THEN [stage |-> 3, from |-> t]
    ELSE IF trip.stage = 1 /\ ParamInteractions(in) = 0 THEN trip
    ELSE NoTrip

Frame(in) ==
    /\ Cur = "simplify_settings_ui"
    /\ IF ~in.ctx
       THEN UNCHANGED <<settings, reset, simplify, trip>>
       ELSE /\ LET t == SelectMultiplier(
                            SelectCount(settings.target_index_count, in.count),
                            in.multiplier)
               IN  in.slider # NoEdit => in.slider \in SliderRange(t)
            /\ settings' = Panel(settings, in)
            /\ reset' = ResetButton(reset, in)
            /\ simplify' = SimplifyButton(simplify, in)
            /\ trip' = TripAfter(settings.target_index_count, in)
    /\ rlog' = NoResetLog
    /\ slog' = NoSimplifyLog
    /\ Advance
    /\ UNCHANGED <<helmet_entity, gltf_loaded, scene, meshes, queue, world,
                   children, despawned, next_id>>

simplify_settings_ui == \E in \in FrameInputs : Frame(in)

simplify_buttons_ui == \E in \in ButtonInputs : Frame(in)

(***************************************************************************)
(* main: the resources inserted before run(), after the Startup schedule.  *)
(* SimplifyParams::default() has no options set.                           *)
(***************************************************************************)
DefaultParams ==
    [max_error : {10},
     target_index_count : {Count(CountDefault), Multiplier(MultiplierDefault)},
     options : {{}},
     sloppy : {FALSE}]

Init ==
    /\ helmet_entity = NoEntity
    /\ reset = TRUE
    /\ simplify = FALSE
    /\ settings \in DefaultParams
    /\ gltf_loaded = FALSE
    /\ scene = <<>>
    /\ meshes = <<>>
    /\ queue = <<>>
    /\ world = {}
    /\ children = {}
    /\ despawned = {}
    /\ next_id = 1
    /\ pc = 1
    /\ order = <<>>
    /\ rlog = NoResetLog
    /\ slog = NoSimplifyLog
    /\ trip = NoTrip

\* the lifecycle and the passes, the user pressing the two buttons
Next ==
    \/ AssetLoaded
    \/ reset_gltf_object
    \/ apply_deferred
    \/ simplify_meshes
    \/ spawn_scene
    \/ simplify_buttons_ui

Spec == Init /\ [][Next]_vars

\* the control panel in full, while the asset is still loading
NextPanel ==
    \/ reset_gltf_object
    \/ apply_deferred
    \/ simplify_meshes
    \/ spawn_scene
    \/ simplify_settings_ui

SpecPanel == Init /\ [][NextPanel]_vars

(***************************************************************************)
(* Observation points of a frame.                                          *)
(***************************************************************************)
\* reset_gltf_object has run in this frame and the control panel has not
AfterReset ==
    Cur \in {"apply_deferred", "simplify_meshes", "spawn_scene", "simplify_settings_ui"}

\* the sync point after reset_gltf_object has been passed as well
AfterSync == Cur \in {"simplify_meshes", "spawn_scene", "simplify_settings_ui"}

\* both Update systems have run: the tick is complete
AfterUpdate == Cur \in {"spawn_scene", "simplify_settings_ui"}

\* no Update system is part-way: between two ticks
BetweenTicks == AfterUpdate \/ pc = 1

(***************************************************************************)
(* C1: between ticks at most one instance spawned by reset_gltf_object is  *)
(* alive, and HelmetEntity is None or names exactly that live instance,    *)
(* never an entity whose despawn was issued.                               *)
(***************************************************************************)
C1_AtMostOneInstance ==
    BetweenTicks =>
        /\ Cardinality(world) <= 1
        /\ \/ helmet_entity = NoEntity
           \/ /\ world = {helmet_entity}
              /\ helmet_entity \notin despawned

\* an instance has been replaced: one despawned, its successor recorded
C1_Witness ==
    /\ BetweenTicks
    /\ despawned # {}
    /\ helmet_entity # NoEntity
    /\ world = {helmet_entity}

(***************************************************************************)
(* C2: once the tick whose reset step found ResetRequested set is          *)
(* complete, ResetRequested is false, whether the asset was ready (an      *)
(* instance was spawned) or not (nothing was spawned).                     *)
(***************************************************************************)
C2_ResetCleared ==
    (AfterUpdate /\ rlog.ran) =>
        /\ ~reset
        /\ rlog.ready => helmet_entity # NoEntity
        /\ ~rlog.ready => helmet_entity = NoEntity

\* the reset step ran while the asset was still loading; the tick is over
C2_Witness ==
    /\ AfterUpdate
    /\ rlog.ran
    /\ ~rlog.ready
    /\ ~reset

(***************************************************************************)
(* C3: once the tick whose simplify step found SimplifyRequested set is    *)
(* complete, SimplifyRequested is false: with no mesh visited, with every  *)
(* decimation succeeding, and with any decimation failing.                 *)
(***************************************************************************)
C3_SimplifyCleared ==
    (AfterUpdate /\ slog.ran) => ~simplify

\* a pass in which one decimation failed and another succeeded
C3_Witness ==
    /\ AfterUpdate
    /\ slog.ran
    /\ \E i, j \in DOMAIN slog.visits : ~slog.visits[i].ok /\ slog.visits[j].ok
    /\ ~simplify

(***************************************************************************)
(* C4 as stated: reset runs before simplify in every tick, and when both   *)
(* flags are set at the start of a tick with the asset ready, the tick's   *)
(* simplify pass works on the geometry of the instance that this tick's    *)
(* reset respawned: it visits the Mesh3d entities of that instance.        *)
(***************************************************************************)
C4_SeesRespawned ==
    (AfterUpdate /\ rlog.ran /\ rlog.ready /\ slog.ran) =>
        /\ SubSeq(order, 1, 3)
               = <<"reset_gltf_object", "apply_deferred", "simplify_meshes">>
        /\ slog.query = [k \in 1..Len(scene) |->
                            [inst |-> helmet_entity, mesh |-> scene[k]]]

(***************************************************************************)
(* C4 amended: reset runs before simplify in every tick, with the reset's  *)
(* commands applied in between; a pass never visits a Mesh3d entity of a   *)
(* despawned instance; and a pass in the tick of a reset that respawned    *)
(* visits no entity at all and changes no mesh, because the Mesh3d         *)
(* entities of the new instance are spawned only after the Update stage.   *)
(***************************************************************************)
C4_NeverSeesDestroyed ==
    AfterUpdate =>
        /\ SubSeq(order, 1, 3)
               = <<"reset_gltf_object", "apply_deferred", "simplify_meshes">>
        /\ \A i \in DOMAIN slog.query :
               /\ slog.query[i].inst \notin despawned
               /\ slog.query[i].inst \in world
        /\ (rlog.ran /\ rlog.ready /\ slog.ran) =>
               /\ slog.query = <<>>
               /\ slog.report = ZeroStats
               /\ meshes = slog.start
               /\ ~simplify

\* reset and simplify were both requested, an instance with meshes was
\* replaced, and the pass of that tick has run
C4_Witness ==
    /\ AfterUpdate
    /\ rlog.ran /\ rlog.ready /\ slog.ran
    /\ rlog.prior # NoEntity
    /\ rlog.prior \in despawned
    /\ scene # <<>>

(***************************************************************************)
(* C5: when the reset step runs with ResetRequested set and the asset not  *)
(* ready, it issues no spawn, the manager is Empty afterwards (nothing     *)
(* recorded, no entity in the world) and ResetRequested is false.          *)
(***************************************************************************)
C5_NotReadyStaysEmpty ==
    (AfterReset /\ rlog.ran /\ ~rlog.ready) =>
        /\ \A i \in DOMAIN rlog.cmds : rlog.cmds[i].op # "spawn"
        /\ helmet_entity = NoEntity
        /\ ~reset
        /\ AfterSync => (world = {} /\ children = {} /\ queue = <<>>)

\* the reset step ran before the asset was loaded and its commands are applied
C5_Witness ==
    /\ AfterSync
    /\ rlog.ran
    /\ ~rlog.ready
    /\ ~gltf_loaded

(***************************************************************************)
(* C6: when the reset step runs with ResetRequested set and the asset      *)
(* ready, from Present(I1) it issues exactly destroy(I1) and then one      *)
(* spawn of a new I2 # I1; from Empty it issues no destroy and exactly one *)
(* spawn; afterwards I2 is recorded, is the one live instance, and         *)
(* ResetRequested is false.                                                *)
(***************************************************************************)
C6_ReadyRespawns ==
    (AfterReset /\ rlog.ran /\ rlog.ready) =>
        /\ helmet_entity # NoEntity
        /\ helmet_entity # rlog.prior
        /\ rlog.cmds = IF rlog.prior # NoEntity
                       THEN <<Despawn(rlog.prior), Spawn(helmet_entity)>>
                       ELSE <<Spawn(helmet_entity)>>
        /\ ~reset
        /\ AfterSync =>
               /\ world = {helmet_entity}
               /\ helmet_entity \notin despawned
               /\ rlog.prior # NoEntity => rlog.prior \in despawned

\* an instance I1 was held, the reset step replaced it and the sync point
\* has applied both commands
C6_Witness ==
    /\ AfterSync
    /\ rlog.ran /\ rlog.ready
    /\ rlog.prior # NoEntity
    /\ world = {helmet_entity}

\* the counts of a mesh buffer, as the statistics read them
Counts(mesh) == <<PositionCount(mesh), IndexCount(mesh)>>

Failed == {i \in DOMAIN slog.visits : ~slog.visits[i].ok}

(***************************************************************************)
(* C7 as stated: every mesh whose decimation fails is the same buffer      *)
(* after the pass as before it, and adds the same counts to before and to  *)
(* after; if it is the only mesh, the totals agree and SimplifyRequested   *)
(* is false.                                                               *)
(***************************************************************************)
C7_FailedMeshUntouched ==
    (AfterUpdate /\ slog.ran) =>
        /\ \A i \in Failed :
               /\ meshes[slog.visits[i].mesh] = slog.start[slog.visits[i].mesh]
               /\ slog.visits[i].before = slog.visits[i].after
        /\ (Len(slog.visits) = 1 /\ Failed # {}) =>
               /\ slog.report.positions_before = slog.report.positions_after
               /\ slog.report.indices_before = slog.report.indices_after
               /\ ~simplify

(***************************************************************************)
(* C7 amended: a visit whose decimation fails leaves the positions and     *)
(* indices of its mesh as that visit found them, the index buffer          *)
(* re-encoded as u32, and adds the same counts to before and to after; if  *)
(* it is the only visit of the pass, the mesh has the counts it had at the *)
(* start, the totals agree and SimplifyRequested is false.                 *)
(***************************************************************************)
C7_FailedVisitKeepsCounts ==
    (AfterUpdate /\ slog.ran) =>
        /\ \A i \in Failed :
               LET v == slog.visits[i]
               IN  /\ v.post = assert_indices_u32(v.pre)
                   /\ v.before = v.after
                   /\ v.before = Counts(v.pre)
        /\ (Len(slog.visits) = 1 /\ Failed # {}) =>
               /\ Counts(meshes[slog.visits[1].mesh])
                      = Counts(slog.start[slog.visits[1].mesh])
               /\ slog.report.positions_before = slog.report.positions_after
               /\ slog.report.indices_before = slog.report.indices_after
               /\ slog.report.indices_before = IndexCount(slog.visits[1].pre)
               /\ ~simplify

\* the only mesh of the scene, indexed with u16 and not empty, failed to decimate
C7_Witness ==
    /\ AfterUpdate
    /\ slog.ran
    /\ Len(slog.visits) = 1
    /\ ~slog.visits[1].ok
    /\ slog.visits[1].pre.enc = "U16"
    /\ slog.visits[1].pre.idx > 0

RECURSIVE SumOver(_, _, _)
SumOver(f(_), q, k) == IF k = 0 THEN 0 ELSE f(q[k]) + SumOver(f, q, k - 1)

(***************************************************************************)
(* C8: at the end of a pass the before totals are the sums, over the       *)
(* visits of the pass, of the position and index counts the visited mesh   *)
(* buffer had when the pass started, and the after totals are the sums of  *)
(* the counts after each visit's decimation call, for every enumeration of *)
(* the scene's entities, also when entities share a mesh buffer.           *)
(***************************************************************************)
C8_TotalsArePassStartSums ==
    (AfterUpdate /\ slog.ran) =>
        LET StartPos(v) == PositionCount(slog.start[v.mesh])
            StartIdx(v) == IndexCount(slog.start[v.mesh])
            EndPos(v) == PositionCount(v.post)
            EndIdx(v) == IndexCount(v.post)
            n == Len(slog.visits)
        IN  /\ n = Len(slog.query)
            /\ slog.report.positions_before = SumOver(StartPos, slog.visits, n)
            /\ slog.report.indices_before = SumOver(StartIdx, slog.visits, n)
            /\ slog.report.positions_after = SumOver(EndPos, slog.visits, n)
            /\ slog.report.indices_after = SumOver(EndIdx, slog.visits, n)

\* the value a variant gets when it is selected while the other one is active
DefaultOf(tag) ==
    IF tag = "Count" THEN Count(CountDefault) ELSE Multiplier(MultiplierDefault)

(***************************************************************************)
(* C9: from Count(n), selecting Multiplier and then Count gives            *)
(* Count(1000) for every n, not Count(n) and not Count(0); from            *)
(* Multiplier(f), selecting Count and then Multiplier gives                *)
(* Multiplier(0.5).                                                        *)
(***************************************************************************)
C9_RoundTripGivesDefault ==
    /\ trip.stage = 1 =>
           settings.target_index_count = DefaultOf(Other(trip.from.tag))
    /\ trip.stage = 2 =>
           settings.target_index_count = DefaultOf(trip.from.tag)

\* a round trip that started from a Count other than the default is complete
C9_Witness ==
    /\ trip.stage = 2
    /\ trip.from.tag = "Count"
    /\ trip.from.val \notin {CountDefault, 0}
    /\ settings.target_index_count = Count(CountDefault)

\* a pass in which the checkbox of option x is clicked and nothing else is touched
ClickOption(x) ==
    [ctx |-> TRUE, max_error |-> NoEdit, count |-> FALSE, multiplier |-> FALSE,
     slider |-> NoEdit, options |-> {x}, sloppy |-> FALSE, reset |-> FALSE,
     simplify |-> FALSE]

\* the option sets that single checkbox clicks lead to from the sets in S
RECURSIVE ClickClosure(_)
ClickClosure(S) ==
    LET T == S \cup {OptionBoxes(o, ClickOption(x)) : o \in S, x \in Flags}
    IN  IF T = S THEN S ELSE ClickClosure(T)

(***************************************************************************)
(* C10: a single click on the checkbox of option x changes the membership  *)
(* of x in SimplifyParams.options and nothing else: the other three flags, *)
(* max_error, target_index_count and sloppy stay as they are; and single   *)
(* clicks lead from the empty default to each of the 16 subsets.           *)
(***************************************************************************)
C10_ToggleIsIndependent ==
    /\ [](ClickClosure({d.options : d \in DefaultParams}) = SUBSET Flags)
    /\ [][\A x \in Flags : Frame(ClickOption(x)) =>
            /\ (x \in settings'.options) # (x \in settings.options)
            /\ \A y \in Flags \ {x} :
                   (y \in settings'.options) = (y \in settings.options)
            /\ settings'.max_error = settings.max_error
            /\ settings'.target_index_count = settings.target_index_count
            /\ settings'.sloppy = settings.sloppy]_vars

\* all four options are set, with the other parameters off their defaults
C10_Witness ==
    /\ settings.options = Flags
    /\ settings.sloppy
    /\ settings.target_index_count.val \notin {CountDefault, MultiplierDefault}

\* the step taken is a run of the named system
Runs(system) == Cur = system /\ pc' # pc

(***************************************************************************)
(* C11: commands are issued only by a reset step that found ResetRequested *)
(* set, so an instance is created only in such a tick; every despawn is    *)
(* issued together with, and directly before, the spawn of a new entity,   *)
(* and the sync point that destroys an instance creates its replacement.   *)
(***************************************************************************)
C11_CreatedOnRequestDestroyedOnReplace ==
    [][/\ (queue' # queue /\ queue' # <<>>) =>
              (reset /\ Runs("reset_gltf_object"))
       /\ next_id' # next_id => (reset /\ Runs("reset_gltf_object"))
       /\ \A i \in DOMAIN queue' :
              queue'[i].op = "despawn" =>
                  /\ i < Len(queue')
                  /\ queue'[i + 1].op = "spawn"
                  /\ queue'[i + 1].e \notin world \cup despawned \cup {queue'[i].e}
       /\ world' # world => (Runs("apply_deferred") /\ rlog.ran)
       /\ despawned' # despawned =>
              /\ Cardinality(despawned' \ despawned) = 1
              /\ Cardinality(world' \ world) = 1
              /\ world' \cap despawned' = {}]_vars

\* the sync point has just replaced an instance: the old root is despawned,
\* the new one is alive and its scene is not instantiated yet
C11_Witness ==
    /\ Cur = "simplify_meshes"
    /\ rlog.prior \in despawned
    /\ helmet_entity \in world
    /\ helmet_entity \notin children

(***************************************************************************)
(* C12: a simplify step that finds SimplifyRequested false is a no-op: no  *)
(* decimation call, every mesh buffer as it was (index encoding included), *)
(* no statistics, and SimplifyRequested still false.                       *)
(***************************************************************************)
C12_SimplifyNoOp ==
    [][(Runs("simplify_meshes") /\ ~simplify) =>
           /\ meshes' = meshes
           /\ slog' = NoSimplifyLog
           /\ ~simplify'
           /\ UNCHANGED <<reset, settings, helmet_entity, world, children, queue>>]_vars

\* the step was skipped although the scene has u16-indexed meshes to visit
C12_Witness ==
    /\ AfterUpdate
    /\ ~slog.ran
    /\ ~simplify
    /\ children # {}
    /\ \E m \in DOMAIN meshes : meshes[m].enc = "U16" /\ meshes[m].idx > 0

(***************************************************************************)
(* C13: a reset step that finds ResetRequested false is a no-op: it issues *)
(* no despawn and no spawn, the recorded instance is unchanged (Empty      *)
(* stays Empty also when the asset is ready, Present(I) stays Present(I)), *)
(* and ResetRequested is still false.                                      *)
(***************************************************************************)
C13_ResetNoOp ==
    [][(Runs("reset_gltf_object") /\ ~reset) =>
           /\ queue' = queue
           /\ rlog'.cmds = <<>>
           /\ helmet_entity' = helmet_entity
           /\ next_id' = next_id
           /\ ~reset'
           /\ UNCHANGED <<simplify, settings, meshes, world, children, despawned>>]_vars

\* the asset is ready, nothing is held, and the reset step did nothing
C13_Witness ==
    /\ Cur = "apply_deferred"
    /\ ~rlog.ran
    /\ gltf_loaded
    /\ helmet_entity = NoEntity
    /\ queue = <<>>

(***************************************************************************)
(* C14: a pass runs to completion: every entity the query enumerates gets  *)
(* exactly one decimation call, in order, whatever the earlier calls       *)
(* returned; the report covers all visits including the last, and the flag *)
(* is cleared after it.                                                    *)
(***************************************************************************)
C14_PassRunsToCompletion ==
    (AfterUpdate /\ slog.ran) =>
        LET n == Len(slog.query)
            PosBefore(v) == v.before[1]
            IdxBefore(v) == v.before[2]
            PosAfter(v) == v.after[1]
            IdxAfter(v) == v.after[2]
        IN  /\ Len(slog.visits) = n
            /\ \A i \in 1..n :
                   /\ slog.visits[i].inst = slog.query[i].inst
                   /\ slog.visits[i].mesh = slog.query[i].mesh
            /\ slog.report.positions_before = SumOver(PosBefore, slog.visits, n)
            /\ slog.report.indices_before = SumOver(IdxBefore, slog.visits, n)
            /\ slog.report.positions_after = SumOver(PosAfter, slog.visits, n)
            /\ slog.report.indices_after = SumOver(IdxAfter, slog.visits, n)
            /\ ~simplify

\* partial application: the first mesh failed and is as it was, a later,
\* different mesh was reduced
C14_Witness ==
    /\ AfterUpdate
    /\ slog.ran
    /\ \E i, j \in DOMAIN slog.visits :
           /\ i < j
           /\ slog.visits[i].mesh # slog.visits[j].mesh
           /\ ~slog.visits[i].ok
           /\ Counts(meshes[slog.visits[i].mesh]) = Counts(slog.start[slog.visits[i].mesh])
           /\ slog.visits[j].ok
           /\ IndexCount(slog.visits[j].post) < IndexCount(slog.visits[j].pre)

\* no system has run yet: the state main() builds, the asset loaded or not
AtStartup == order = <<>>

(***************************************************************************)
(* C15: at startup the manager is Empty, ResetRequested is true and        *)
(* SimplifyRequested is false.  A reset step that runs before the asset is *)
(* ready clears the flag and leaves the manager Empty; while Empty with    *)
(* the flag false the manager stays Empty, whether or not the asset has    *)
(* become ready, until the control panel sets ResetRequested; a reset      *)
(* step that then finds the asset ready leaves the manager Present by the  *)
(* end of its tick.                                                        *)
(***************************************************************************)
C15_DeferredUntilRequestedAgain ==
    /\ [](AtStartup => (helmet_entity = NoEntity /\ world = {} /\ reset /\ ~simplify))
    /\ []((AfterReset /\ rlog.ran /\ ~rlog.ready) =>
              (~reset /\ helmet_entity = NoEntity))
    /\ []((AfterUpdate /\ rlog.ran /\ rlog.ready) =>
              (helmet_entity # NoEntity /\ world = {helmet_entity}))
    /\ [][(helmet_entity = NoEntity /\ ~reset) =>
              \/ helmet_entity' = NoEntity /\ world' = {} /\ next_id' = next_id
                 /\ (reset' => Runs("simplify_settings_ui"))]_vars

\* the startup request was spent before the asset was ready: the asset is
\* ready now, a tick has gone by without a request, and nothing is spawned
C15_Witness ==
    /\ AfterUpdate
    /\ ~rlog.ran
    /\ gltf_loaded
    /\ helmet_entity = NoEntity
    /\ world = {}
    /\ next_id = 1
    /\ ~reset

(***************************************************************************)
(* C16: the reset step never changes SimplifyRequested, SimplifyParams or  *)
(* a mesh buffer; the simplify step never changes ResetRequested,          *)
(* SimplifyParams or the recorded instance; a request flag goes from false *)
(* to true only in the control panel pass.                                 *)
(***************************************************************************)
C16_SingleClearer ==
    [][/\ Runs("reset_gltf_object") =>
              UNCHANGED <<simplify, settings, meshes>>
       /\ Runs("simplify_meshes") =>
              UNCHANGED <<reset, settings, helmet_entity>>
       /\ (Runs("apply_deferred") \/ Runs("spawn_scene")) =>
              UNCHANGED <<reset, simplify, settings, helmet_entity, meshes>>
       /\ ((~reset /\ reset') \/ (~simplify /\ simplify')) =>
              Runs("simplify_settings_ui")]_vars

\* both requests were pending in one tick: the reset step has replaced the
\* instance and the simplify step has run after it
C16_Witness ==
    /\ AfterUpdate
    /\ rlog.ran /\ slog.ran
    /\ rlog.prior # NoEntity
    /\ helmet_entity \in world

(***************************************************************************)
(* C17: with a decimation primitive that never increases the index count   *)
(* and leaves a mesh unchanged on failure, every pass reports              *)
(* indices_after <= indices_before: for any number of meshes, any mix of   *)
(* successes and failures, also with a mesh buffer visited more than once. *)
(***************************************************************************)
C17_IndicesNeverIncrease ==
    (AfterUpdate /\ slog.ran) =>
        /\ slog.report.indices_after <= slog.report.indices_before
        /\ \A i \in DOMAIN slog.visits :
               slog.visits[i].after[2] <= slog.visits[i].before[2]

\* a mesh buffer visited twice, reduced by one visit and failed by the
\* other, the vertex buffer left larger than the index buffer
C17_Witness ==
    /\ AfterUpdate
    /\ slog.ran
    /\ slog.report.indices_after < slog.report.indices_before
    /\ \E i, j \in DOMAIN slog.visits :
           /\ i # j
           /\ slog.visits[i].mesh = slog.visits[j].mesh
           /\ slog.visits[i].ok /\ ~slog.visits[j].ok
           /\ PositionCount(slog.visits[j].post) > IndexCount(slog.visits[j].post)

(***************************************************************************)
(* C18: after any sequence of control panel operations (variant            *)
(* selections, slider edits, option toggles) target_index_count has one    *)
(* active variant and is Count(n) with 1 <= n <= 100000 or Multiplier(f)   *)
(* with 0 <= f <= 1, and 0 <= max_error <= 1.                              *)
(***************************************************************************)
C18_ParamsInRange ==
    LET t == settings.target_index_count
    IN  /\ DOMAIN t = {"tag", "val"}
        /\ t.tag \in {"Count", "Multiplier"}
        /\ t.tag = "Count" => (CountMin <= t.val /\ t.val <= CountMax)
        /\ t.tag = "Multiplier" =>
               (MultiplierMin <= t.val /\ t.val <= MultiplierMax)
        /\ ErrorMin <= settings.max_error /\ settings.max_error <= ErrorMax

\* both sliders were handed a value outside their range and stand at an end
\* of it, options are toggled and the active variant was selected again
C18_Witness ==
    /\ settings.target_index_count \in {Count(CountMax), Count(CountMin)}
    /\ settings.max_error \in {ErrorMin, ErrorMax}
    /\ settings.options # {}
    /\ trip.stage = 3

(***************************************************************************)
(* C19: a pass that selects the variant that is already active leaves      *)
(* target_index_count as it is, Count(n) or Multiplier(f); a pass that     *)
(* selects the other variant changes the variant and gives the default of  *)
(* the new one.                                                            *)
(***************************************************************************)
C19_SelectActiveKeepsValue ==
    [][Runs("simplify_settings_ui") =>
          /\ trip'.stage = 3 =>
                 /\ trip'.from = settings.target_index_count
                 /\ settings'.target_index_count = settings.target_index_count
          /\ (trip'.stage \in {1, 2} /\ trip' # trip) =>
                 /\ settings'.target_index_count.tag
                        # settings.target_index_count.tag
                 /\ settings'.target_index_count
                        = DefaultOf(settings'.target_index_count.tag)]_vars

\* the active Count, not at its default, has been selected again
C19_Witness ==
    /\ trip.stage = 3
    /\ trip.from.tag = "Count"
    /\ trip.from.val \notin {CountDefault, CountMin, CountMax}
    /\ settings.target_index_count = trip.from

====
